---- MODULE Spec2Model ----
(***************************************************************************)
(* Model of api/index.py, the Mutawazi financial proposal backend.         *)
(*                                                                         *)
(* State: the two process-wide tables the handlers share                   *)
(* (DEFAULT_OVERHEAD_COSTS, proposals_storage), the call to the text       *)
(* provider when one is out, and the last request and                      *)
(* the response its handler produced.  Every handler is an `async def`     *)
(* without an await between its reads and writes of the tables, so one     *)
(* handler is one atomic action; the price-justification handler alone     *)
(* waits, for its provider, and is a step before and a step after.         *)
(*                                                                         *)
(* Numbers.  Money is counted in half riyals (SAR(x) = 2x), the smallest   *)
(* unit in which base_costs * 0.15 is whole for the inputs used, and       *)
(* percentages in units of 0.005 % (Pct(x) = 200x), so that sums inside,   *)
(* on and outside the 0.01 tolerance exist.  Arithmetic is the exact       *)
(* decimal arithmetic the float code approximates; where the float result  *)
(* of a comparison or of round() depends on the last bit (a value exactly  *)
(* on the tolerance, a value exactly half way between two roundings) the   *)
(* model allows both outcomes.                                             *)
(*                                                                         *)
(* Optional[...] fields are sequences of length at most one: None is <<>>  *)
(* and a value v is <<v>>.                                                 *)
(***************************************************************************)
EXTENDS Integers, Sequences, FiniteSets, TLC

VARIABLES
    DEFAULT_OVERHEAD_COSTS,   \* the overhead table read by the cash-flow handler
    proposals_storage,        \* quotation code -> stored entry
    request,                  \* the last request handled
    response,                 \* what its handler returned or raised
    provider_call             \* the call to the text provider, if one is out

vars == <<DEFAULT_OVERHEAD_COSTS, proposals_storage, request, response,
          provider_call>>

\* TLC keeps the fields of a record in the order in which it first met their
\* names, and sorts a record written in another order in place the first time
\* it is compared, which is not safe while two workers hold the record.  Every
\* field name of the module is named here first, in alphabetical order, and
\* every record below is written in alphabetical order, so that no record is
\* ever re-sorted.
RecordFields ==
    [amount |-> 0, arg |-> 0, body |-> 0, boq_type |-> 0, cash_in |-> 0,
     cash_out |-> 0, catalog_price |-> 0, cents |-> 0, client |-> 0,
     client_name_ar |-> 0, client_name_en |-> 0, created_at |-> 0,
     created_on |-> 0, cumulative_net_flow |-> 0, currency |-> 0, date |->
     0, day |-> 0, deliverable_name |-> 0, deliverables |-> 0, description
     |-> 0, detail |-> 0, due_date |-> 0, duration |-> 0, duration_months
     |-> 0, end_date |-> 0, exc |-> 0, fraction |-> 0, gemini_api_key |->
     0, index |-> 0, insurance |-> 0, is_profitable |-> 0, items |-> 0,
     justification |-> 0, marker |-> 0, message |-> 0, metadata |-> 0,
     month |-> 0, msg |-> 0, name |-> 0, net_flow |-> 0, num_deliverables
     |-> 0, offer_number |-> 0, office_rent |-> 0, op |-> 0, others |-> 0,
     outcome |-> 0, overhead |-> 0, payment_terms |-> 0, percentage |-> 0,
     price |-> 0, profit_margin |-> 0, project |-> 0, project_name_ar |->
     0, project_name_en |-> 0, project_type |-> 0, prompt |-> 0, proposal
     |-> 0, proposal_items |-> 0, proposals |-> 0, proposed_price |-> 0,
     quantity |-> 0, quotation_code |-> 0, raised |-> 0, rfp_code |-> 0,
     riyals |-> 0, salaries |-> 0, sep |-> 0, service_id |-> 0,
     service_info |-> 0, start_date |-> 0, state |-> 0, status |-> 0,
     status_code |-> 0, success |-> 0, summary |-> 0, text |-> 0, tools |->
     0, total |-> 0, total_amount |-> 0, total_costs |-> 0, total_count |->
     0, total_price |-> 0, total_profit |-> 0, total_project_value |-> 0,
     total_revenue |-> 0, transportation |-> 0, unit |-> 0, unit_price |->
     0, updated_overhead_costs |-> 0, utilities |-> 0, value |-> 0,
     version_name |-> 0, visas |-> 0, whole |-> 0, year |-> 0]

----------------------------------------------------------------------------
(* Units and Optional values *)

SAR(x) == 2 * x
Pct(x) == 200 * x

None == <<>>
Some(v) == <<v>>
IsNone(o) == o = <<>>
Val(o) == o[1]

RECURSIVE SumSeq(_)
\* Python's sum() over a list, left to right from 0.
SumSeq(s) == IF s = <<>> THEN 0 ELSE SumSeq(SubSeq(s, 1, Len(s) - 1)) + s[Len(s)]

Abs(x) == IF x < 0 THEN -x ELSE x

----------------------------------------------------------------------------
(* Bounds of the model *)

MaxDeliverables == 2

----------------------------------------------------------------------------
(* Static data *)

\* The catalog entries the modelled requests can name (the source table has
\* 35 entries of the same shape).
SERVICES_CATALOG ==
    [id \in {"1.2", "6.6"} |->
        IF id = "1.2"
        THEN [duration |-> 2, name |-> "AI Trustworthiness & Risk Assessment",
              price |-> SAR(30000), unit |-> "Service"]
        ELSE [duration |-> 1, name |-> "Maintenance & Support Services",
              price |-> SAR(650000), unit |-> "Service"]]

\* dict.get(key): the entry, or None.
CatalogGet(service_id) ==
    IF service_id \in DOMAIN SERVICES_CATALOG
    THEN Some(SERVICES_CATALOG[service_id]) ELSE None

\* The module-level table as first assigned.
InitialOverheadCosts ==
    [insurance |-> SAR(5000), office_rent |-> SAR(20000), salaries |-> SAR(50000),
     transportation |-> SAR(10000), utilities |-> SAR(15000), visas |-> SAR(8000)]

\* OverheadCosts(): every field a float with a default and no range constraint.
OverheadCostsDefaults ==
    [insurance |-> SAR(5000), office_rent |-> SAR(20000), salaries |-> SAR(50000),
     transportation |-> SAR(10000), utilities |-> SAR(15000), visas |-> SAR(8000)]

\* Values a client puts in a field of an OverheadCosts body.
OverheadFieldValues == {SAR(0), SAR(0 - 200000)}

\* The OverheadCosts bodies of the modelled requests: the defaults, and the
\* defaults with one field given.
OverheadCostsInputs ==
    {OverheadCostsDefaults} \cup
    {[OverheadCostsDefaults EXCEPT !.salaries = v] : v \in OverheadFieldValues}

RECURSIVE SumValues(_, _)
SumValues(f, keys) ==
    IF keys = {} THEN 0
    ELSE LET k == CHOOSE x \in keys : TRUE
         IN f[k] + SumValues(f, keys \ {k})

----------------------------------------------------------------------------
(* Exceptions and responses *)

\* raise HTTPException(status_code, detail)
HTTPException(status_code, detail) ==
    [detail |-> detail, raised |-> TRUE, status_code |-> status_code]

Return(value) == [raised |-> FALSE, value |-> value]

\* What the client receives: the returned body with status 200, or the
\* raised HTTPException's status and detail.
Respond(outcome) ==
    IF outcome.raised
    THEN [detail |-> outcome.detail, status |-> outcome.status_code]
    ELSE [body |-> outcome.value, status |-> 200]

----------------------------------------------------------------------------
(* Requests *)

SeqUpTo(S, n) == UNION {[1..k -> S] : k \in 0..n}

\* DeliverableData bodies.  service_id is Optional[str] (the empty string is a
\* str), amount is Optional[float] with gt=0, the three costs are ge=0.
\* "9.9" is an id the catalog does not hold.
Deliverable(service_id, amount) ==
    [amount |-> amount, due_date |-> "2025-01-31",
     name |-> "D1", others |-> SAR(50),
     salaries |-> SAR(1000), service_id |-> service_id, tools |-> SAR(200)]

DeliverableInputs ==
    {Deliverable(s, a) : s \in {None, Some(""), Some("1.2")},
                         a \in {None, Some(SAR(500000))}}
    \cup {Deliverable(Some("6.6"), None), Deliverable(Some("9.9"), Some(SAR(500000)))}

CashFlowRequests == SeqUpTo(DeliverableInputs, MaxDeliverables)

----------------------------------------------------------------------------
(* calculate_overhead *)

calculate_overhead_no_duration(base_costs, overhead_costs, duration_months) ==
    ((base_costs * 15) \div 100) + SumValues(overhead_costs, DOMAIN overhead_costs)

calculate_overhead(base_costs, overhead_costs, duration_months) ==
    LET monthly_overhead == SumValues(overhead_costs, DOMAIN overhead_costs)
        total_overhead == monthly_overhead * duration_months
    IN  ((base_costs * 15) \div 100) + total_overhead

----------------------------------------------------------------------------
(* calculate_deliverable_cashflow *)

\* `if deliv_data.service_id:` is Python truthiness: None and "" are false.
Truthy(service_id) == ~IsNone(service_id) /\ Val(service_id) # ""

resolve_amount_ignores_unknown(deliv_data) ==
    LET service_info == IF Truthy(deliv_data.service_id)
                        THEN CatalogGet(Val(deliv_data.service_id)) ELSE None
    IN  IF IsNone(deliv_data.amount) /\ IsNone(service_info)
        THEN HTTPException(400,
                 [arg |-> None,
                  msg |-> "Amount is required when service ID is not provided"])
        ELSE Return([amount |-> IF IsNone(deliv_data.amount)
                                THEN Val(service_info).price
                                ELSE Val(deliv_data.amount),
                     service_info |-> service_info])

resolve_amount_defaults_to_zero(deliv_data) ==
    IF Truthy(deliv_data.service_id)
    THEN LET service_info == CatalogGet(Val(deliv_data.service_id))
         IN  IF IsNone(service_info)
             THEN HTTPException(400,
                      [arg |-> deliv_data.service_id,
                       msg |-> "Service ID not found in catalog"])
             ELSE Return([amount |-> IF IsNone(deliv_data.amount)
                                     THEN Val(service_info).price
                                     ELSE Val(deliv_data.amount),
                          service_info |-> service_info])
    ELSE Return([amount |-> IF IsNone(deliv_data.amount) THEN 0
                            ELSE Val(deliv_data.amount),
                 service_info |-> None])

resolve_amount_prefers_catalog(deliv_data) ==
    IF Truthy(deliv_data.service_id)
    THEN LET service_info == CatalogGet(Val(deliv_data.service_id))
         IN  IF IsNone(service_info)
             THEN HTTPException(400,
                      [arg |-> deliv_data.service_id,
                       msg |-> "Service ID not found in catalog"])
             ELSE Return([amount |-> Val(service_info).price,
                          service_info |-> service_info])
    ELSE IF IsNone(deliv_data.amount)
         THEN HTTPException(400,
                  [arg |-> None,
                   msg |-> "Amount is required when service ID is not provided"])
         ELSE Return([amount |-> Val(deliv_data.amount), service_info |-> None])

\* The first half of the loop body: the catalog lookup and the amount.
resolve_amount(deliv_data) ==
    IF Truthy(deliv_data.service_id)
    THEN LET service_info == CatalogGet(Val(deliv_data.service_id))
         IN  IF IsNone(service_info)
             THEN HTTPException(400,
                      [arg |-> deliv_data.service_id,
                       msg |-> "Service ID not found in catalog"])
             ELSE Return([amount |-> IF IsNone(deliv_data.amount)
                                     THEN Val(service_info).price
                                     ELSE Val(deliv_data.amount),
                          service_info |-> service_info])
    ELSE IF IsNone(deliv_data.amount)
         THEN HTTPException(400,
                  [arg |-> None,
                   msg |-> "Amount is required when service ID is not provided"])
         ELSE Return([amount |-> Val(deliv_data.amount), service_info |-> None])

accumulate_overwrites(cumulative_net_flow, net_flow) == net_flow

\* cumulative_net_flow += net_flow
accumulate(cumulative_net_flow, net_flow) == cumulative_net_flow + net_flow

\* The second half of the loop body: the row appended to `deliverables`.
\* The key 'service_info' is present only for a catalog service: None stands
\* for the absent key.
deliverable_row(deliv_data, service_info, amount, overhead_costs, cumulative_net_flow) ==
    LET base_costs == deliv_data.salaries + deliv_data.tools + deliv_data.others
        duration == IF ~IsNone(service_info) THEN Val(service_info).duration ELSE 1
        overhead == calculate_overhead(base_costs, overhead_costs, duration)
        cash_out == base_costs + overhead
        net_flow == amount - cash_out
    IN  [cash_in |-> amount,
         cash_out |-> cash_out,
         cumulative_net_flow |-> accumulate(cumulative_net_flow, net_flow),
         deliverable_name |-> deliv_data.name,
         due_date |-> deliv_data.due_date,
         is_profitable |-> net_flow > 0,
         net_flow |-> net_flow,
         others |-> deliv_data.others,
         overhead |-> overhead,
         salaries |-> deliv_data.salaries,
         service_id |-> deliv_data.service_id,
         service_info |->
             IF ~IsNone(service_info)
             THEN Some([catalog_price |-> Val(service_info).price,
                        duration |-> Val(service_info).duration,
                        name |-> Val(service_info).name,
                        unit |-> Val(service_info).unit])
             ELSE None,
         tools |-> deliv_data.tools]

RECURSIVE cashflow_loop(_, _, _, _)
\* for i, deliv_data in enumerate(request.deliverables): ...
\* A raise leaves the loop with the exception; nothing built so far survives.
cashflow_loop(todo, overhead_costs, deliverables, cumulative_net_flow) ==
    IF todo = <<>> THEN Return(deliverables)
    ELSE LET resolved == resolve_amount(Head(todo))
         IN  IF resolved.raised THEN resolved
             ELSE LET row == deliverable_row(Head(todo), resolved.value.service_info,
                                             resolved.value.amount, overhead_costs,
                                             cumulative_net_flow)
                  IN  cashflow_loop(Tail(todo), overhead_costs,
                                    Append(deliverables, row), row.cumulative_net_flow)

\* round(num / den * 100, 2) in hundredths of a percent, den > 0: the nearest
\* integers to 10000 * num / den, both neighbours when it lies half way.
\* Long division in two steps of 100 keeps the intermediate products small.
RoundedPercent(num, den) ==
    LET q0 == num \div den
        r0 == num % den
        q1 == (100 * r0) \div den
        r1 == (100 * r0) % den
        q2 == (100 * r1) \div den
        r2 == (100 * r1) % den
        floor == 10000 * q0 + 100 * q1 + q2
    IN  IF 2 * r2 < den THEN {floor}
        ELSE IF 2 * r2 > den THEN {floor + 1}
        ELSE {floor, floor + 1}

Raise(exc) == [exc |-> exc, raised |-> TRUE]

profit_margin_unguarded(total_profit, total_revenue) ==
    IF total_revenue = 0 THEN {Raise("ZeroDivisionError")}
    ELSE {Return(m) : m \in RoundedPercent(total_profit, total_revenue)}

\* (total_profit / total_revenue * 100) if total_revenue > 0 else 0, then
\* round(profit_margin, 2): the outcomes of evaluating it.
profit_margin(total_profit, total_revenue) ==
    IF total_revenue > 0
    THEN {Return(m) : m \in RoundedPercent(total_profit, total_revenue)}
    ELSE {Return(0)}

\* The running total kept from the rows of the last response.
calculate_deliverable_cashflow_outcomes_keeps_total(deliverables_in, overhead_costs) ==
    LET carried == IF /\ request.op = "calculate_deliverable_cashflow"
                      /\ response.status = 200
                      /\ response.body.deliverables # <<>>
                   THEN response.body.deliverables[
                            Len(response.body.deliverables)].cumulative_net_flow
                   ELSE 0
        loop == cashflow_loop(deliverables_in, overhead_costs, <<>>, carried)
    IN  IF loop.raised
        THEN {HTTPException(500, [arg |-> loop, msg |-> "Error calculating cash flow"])}
        ELSE LET deliverables == loop.value
                 total_revenue ==
                     SumSeq([i \in 1..Len(deliverables) |-> deliverables[i].cash_in])
                 total_costs ==
                     SumSeq([i \in 1..Len(deliverables) |-> deliverables[i].cash_out])
                 total_profit == total_revenue - total_costs
             IN  {Return([deliverables |-> deliverables,
                          summary |-> [is_profitable |-> total_profit > 0,
                                       profit_margin |-> pm.value,
                                       total_costs |-> total_costs,
                                       total_profit |-> total_profit,
                                       total_revenue |-> total_revenue]])
                  : pm \in profit_margin(total_profit, total_revenue)}

\* The handler's body under its `except Exception`: HTTPException is an
\* Exception, so whatever the body raises leaves as a 500 whose detail embeds
\* str(e).
calculate_deliverable_cashflow_outcomes(deliverables_in, overhead_costs) ==
    LET loop == cashflow_loop(deliverables_in, overhead_costs, <<>>, 0)
    IN  IF loop.raised
        THEN {HTTPException(500, [arg |-> loop, msg |-> "Error calculating cash flow"])}
        ELSE LET deliverables == loop.value
                 total_revenue ==
                     SumSeq([i \in 1..Len(deliverables) |-> deliverables[i].cash_in])
                 total_costs ==
                     SumSeq([i \in 1..Len(deliverables) |-> deliverables[i].cash_out])
                 total_profit == total_revenue - total_costs
             IN  {IF pm.raised
                  THEN HTTPException(500,
                           [arg |-> pm, msg |-> "Error calculating cash flow"])
                  ELSE Return([deliverables |-> deliverables,
                               summary |-> [is_profitable |-> total_profit > 0,
                                            profit_margin |-> pm.value,
                                            total_costs |-> total_costs,
                                            total_profit |-> total_profit,
                                            total_revenue |-> total_revenue]])
                  : pm \in profit_margin(total_profit, total_revenue)}

\* POST /api/cashflow/deliverables
calculate_deliverable_cashflow ==
    \E deliverables_in \in CashFlowRequests :
        \E outcome \in calculate_deliverable_cashflow_outcomes(
                           deliverables_in, DEFAULT_OVERHEAD_COSTS) :
            /\ request' = [deliverables |-> deliverables_in,
                           op |-> "calculate_deliverable_cashflow"]
            /\ response' = Respond(outcome)
            /\ UNCHANGED <<DEFAULT_OVERHEAD_COSTS, proposals_storage, provider_call>>

----------------------------------------------------------------------------
(* update_overhead_costs *)

\* dict.update(other): other's keys overwrite, the rest stay.
DictUpdate(d, other) == other @@ d

\* PUT /api/overhead
update_overhead_costs ==
    \E overhead \in OverheadCostsInputs :
        /\ DEFAULT_OVERHEAD_COSTS' = DictUpdate(DEFAULT_OVERHEAD_COSTS, overhead)
        /\ request' = [op |-> "update_overhead_costs", overhead |-> overhead]
        /\ response' = Respond(Return([success |-> TRUE,
                                       updated_overhead_costs |-> DEFAULT_OVERHEAD_COSTS']))
        /\ UNCHANGED <<proposals_storage, provider_call>>

----------------------------------------------------------------------------
(* create_financial_proposal *)

\* ProposalItem bodies: total_price is the client's, never checked against
\* quantity * unit_price.
Item1 == [description |-> "Assessment", quantity |-> 1,
          total_price |-> SAR(200000), unit_price |-> SAR(200000)]
Item2 == [description |-> "Implementation", quantity |-> 2,
          total_price |-> SAR(300000), unit_price |-> SAR(100000)]

ProposalItemLists == {<<>>, <<Item2>>, <<Item1, Item2>>}

\* PaymentTerm bodies: 0 < percentage <= 100.
Term(description, percentage) == [description |-> description, percentage |-> percentage]

\* Sums of 100 exactly, inside the tolerance (99.995), on it (99.99, 100.01)
\* and outside it (0, 40, 99, 99.985, 100.015).
PaymentTermLists ==
    { <<>>,
      <<Term("Kickoff", Pct(40))>>,
      <<Term("Kickoff", Pct(40)), Term("Completion", Pct(60))>>,
      <<Term("Completion", Pct(60)), Term("Kickoff", Pct(40))>>,
      <<Term("Advance", Pct(30)), Term("Midway", Pct(30)), Term("Final", Pct(40))>>,
      <<Term("Advance", Pct(30)), Term("Midway", Pct(30)), Term("Final", Pct(39))>>,
      <<Term("Kickoff", Pct(40)), Term("Completion", Pct(60) - 1)>>,
      <<Term("Kickoff", Pct(40)), Term("Completion", Pct(60) - 2)>>,
      <<Term("Kickoff", Pct(40)), Term("Completion", Pct(60) + 2)>>,
      <<Term("Kickoff", Pct(40)), Term("Completion", Pct(60) - 3)>>,
      <<Term("Kickoff", Pct(40)), Term("Completion", Pct(60) + 3)>> }

\* generate_quotation_code(): "MUT-<date>-<8 characters of a uuid4>".  Two of
\* the codes it can return; nothing keeps it from returning one twice.
QuotationCodes == {"MUT-20250131-0000000A", "MUT-20250131-0000000B"}

\* datetime.now(), as the handler formats it: time does not advance in the model.
Today == "2025-01-31"
NowIso == "2025-01-31T00:00:00"

DictPut_keeps_first(d, k, v) == IF k \in DOMAIN d THEN d ELSE (k :> v) @@ d

DictPut_merges(d, k, v) ==
    IF k \in DOMAIN d THEN (k :> (v @@ d[k])) @@ d ELSE (k :> v) @@ d

\* d[k] = v on a dict.
DictPut(d, k, v) == (k :> v) @@ d

payment_terms_mismatch_one_sided(total_percentage) ==
    IF total_percentage - Pct(100) > 2 THEN {TRUE}
    ELSE IF total_percentage - Pct(100) < 2 THEN {FALSE}
    ELSE BOOLEAN

\* abs(total_percentage - 100) > 0.01 (0.01 is 2 units): the values the float
\* comparison can take.  Exactly on the tolerance, the float difference falls
\* on either side of the float 0.01.
payment_terms_mismatch(total_percentage) ==
    IF Abs(total_percentage - Pct(100)) > 2 THEN {TRUE}
    ELSE IF Abs(total_percentage - Pct(100)) < 2 THEN {FALSE}
    ELSE BOOLEAN

term_amount_from_percentage_points(total_amount, percentage) ==
    total_amount * (percentage \div Pct(1))

\* total_amount * (term.percentage / 100).  The totals of the modelled
\* requests are multiples of 10000 SAR, so dividing first is exact and keeps
\* the product small.
term_amount(total_amount, percentage) ==
    (total_amount \div Pct(100)) * percentage

RECURSIVE with_amounts(_, _)
\* for term in request.payment_terms: payment_terms_with_amounts.append({...})
with_amounts(payment_terms, total_amount) ==
    IF payment_terms = <<>> THEN <<>>
    ELSE <<[amount |-> term_amount(total_amount, Head(payment_terms).percentage),
            description |-> Head(payment_terms).description,
            percentage |-> Head(payment_terms).percentage]>>
         \o with_amounts(Tail(payment_terms), total_amount)

\* The handler's body under its `except Exception`, for the quotation code
\* drawn: the outcomes of evaluating it.
create_financial_proposal_outcomes(proposal_items, payment_terms, quotation_code) ==
    LET total_percentage ==
            SumSeq([i \in 1..Len(payment_terms) |-> payment_terms[i].percentage])
        total_amount ==
            SumSeq([i \in 1..Len(proposal_items) |-> proposal_items[i].total_price])
        payment_terms_with_amounts == with_amounts(payment_terms, total_amount)
        proposal ==
            [created_at |-> NowIso,
             currency |-> "SAR",
             date |-> Today,
             items |-> proposal_items,
             offer_number |-> quotation_code,
             payment_terms |-> payment_terms_with_amounts,
             total_amount |-> total_amount]
    IN  {IF mismatch
         THEN HTTPException(500,
                  [arg |-> HTTPException(400,
                               [arg |-> total_percentage,
                                msg |-> "Payment terms must sum to 100%"]),
                   msg |-> "Error creating proposal"])
         ELSE Return([proposal |-> proposal,
                      quotation_code |-> quotation_code,
                      success |-> TRUE])
         : mismatch \in payment_terms_mismatch(total_percentage)}

\* POST /api/proposal/create
create_financial_proposal ==
    \E proposal_items \in ProposalItemLists, payment_terms \in PaymentTermLists,
       quotation_code \in QuotationCodes :
        \E outcome \in create_financial_proposal_outcomes(
                           proposal_items, payment_terms, quotation_code) :
            /\ request' = [op |-> "create_financial_proposal",
                           payment_terms |-> payment_terms,
                           proposal_items |-> proposal_items]
            /\ response' = Respond(outcome)
            /\ proposals_storage' =
                   IF outcome.raised THEN proposals_storage
                   ELSE DictPut(proposals_storage, quotation_code,
                                [created_at |-> NowIso,
                                 proposal |-> outcome.value.proposal])
            /\ UNCHANGED <<DEFAULT_OVERHEAD_COSTS, provider_call>>

----------------------------------------------------------------------------
(* create_project_metadata *)

\* Date strings, by the parts strptime looks at: "2025-01-31" is year 2025,
\* separator "-", month 1, day 31; "2025-02-30" names a day February does not
\* have and "2025/03/01" is written with another separator.
DateString(year, sep, month, day) ==
    [day |-> day, month |-> month, sep |-> sep, year |-> year]

IsLeap(year) == (year % 4 = 0 /\ year % 100 # 0) \/ year % 400 = 0

DaysInMonth(year, month) ==
    IF month = 2 THEN (IF IsLeap(year) THEN 29 ELSE 28)
    ELSE IF month \in {4, 6, 9, 11} THEN 30 ELSE 31

RECURSIVE DaysBeforeMonth(_, _)
DaysBeforeMonth(year, month) ==
    IF month = 1 THEN 0
    ELSE DaysBeforeMonth(year, month - 1) + DaysInMonth(year, month - 1)

RECURSIVE DaysBeforeYear(_)
\* Days from 1 January 2000 to 1 January of `year` (year >= 2000).
DaysBeforeYear(year) ==
    IF year <= 2000 THEN 0
    ELSE DaysBeforeYear(year - 1) + (IF IsLeap(year - 1) THEN 366 ELSE 365)

\* datetime.strptime(date_string, '%Y-%m-%d'): the day the string names, as a
\* day number, or ValueError when the string does not match the format or
\* names no day of the calendar.
strptime(date_string) ==
    IF /\ date_string.sep = "-"
       /\ date_string.month \in 1..12
       /\ date_string.day \in 1..DaysInMonth(date_string.year, date_string.month)
    THEN Return(DaysBeforeYear(date_string.year)
                + DaysBeforeMonth(date_string.year, date_string.month)
                + date_string.day)
    ELSE Raise("ValueError")

\* round((end - start).days / 30.44), for end after start.  No whole number
\* of days is half way between two multiples of 30.44.
calculate_duration_months(start_date, end_date) ==
    LET days == strptime(end_date).value - strptime(start_date).value
    IN  (200 * days + 3044) \div 6088

\* ProjectMetadata bodies: the names are fixed, the dates vary.
ProjectMetadata(start_date, end_date) ==
    [boq_type |-> "deliverable-based",
     client_name_ar |-> "client-ar", client_name_en |-> "Client",
     end_date |-> end_date, num_deliverables |-> 2,
     project_name_ar |-> "project-ar", project_name_en |-> "Project",
     project_type |-> "fixed", rfp_code |-> "RFP-1", start_date |-> start_date]

\* Dates in order, in the reverse order, equal, and with a start or an end
\* that strptime rejects.
ProjectMetadataInputs ==
    {ProjectMetadata(DateString(2025, "-", 1, 31), DateString(2025, "-", 3, 1)),
     ProjectMetadata(DateString(2025, "-", 3, 1), DateString(2025, "-", 1, 31)),
     ProjectMetadata(DateString(2025, "-", 1, 31), DateString(2025, "-", 1, 31)),
     ProjectMetadata(DateString(2025, "-", 2, 30), DateString(2025, "-", 3, 1)),
     ProjectMetadata(DateString(2025, "-", 1, 31), DateString(2025, "/", 3, 1))}

\* {**metadata.dict(), 'duration_months': ..., ...}
processed_metadata(metadata, quotation_code) ==
    [boq_type |-> metadata.boq_type,
     client_name_ar |-> metadata.client_name_ar,
     client_name_en |-> metadata.client_name_en,
     created_on |-> Today,
     duration_months |-> calculate_duration_months(metadata.start_date,
                                                   metadata.end_date),
     end_date |-> metadata.end_date,
     num_deliverables |-> metadata.num_deliverables,
     project_name_ar |-> metadata.project_name_ar,
     project_name_en |-> metadata.project_name_en,
     project_type |-> metadata.project_type,
     quotation_code |-> quotation_code,
     rfp_code |-> metadata.rfp_code,
     start_date |-> metadata.start_date,
     version_name |-> "v1.0"]

\* The handler's body under its two except clauses, for the quotation code
\* drawn.  ValueError leaves as a 400; the HTTPException raised for the order
\* of the dates is no ValueError and leaves through `except Exception`.
create_project_metadata_outcome(metadata, quotation_code) ==
    LET start_date == strptime(metadata.start_date)
        end_date == strptime(metadata.end_date)
    IN  IF start_date.raised
        THEN HTTPException(400, [arg |-> start_date, msg |-> "Invalid date format"])
        ELSE IF end_date.raised
        THEN HTTPException(400, [arg |-> end_date, msg |-> "Invalid date format"])
        ELSE IF start_date.value >= end_date.value
        THEN HTTPException(500,
                 [arg |-> HTTPException(400,
                              [arg |-> None,
                               msg |-> "End date must be after start date"]),
                  msg |-> "Error processing metadata"])
        ELSE Return([metadata |-> processed_metadata(metadata, quotation_code),
                     quotation_code |-> quotation_code,
                     success |-> TRUE])

create_project_metadata_stores_first ==
    \E metadata \in ProjectMetadataInputs, quotation_code \in QuotationCodes :
        LET outcome == create_project_metadata_outcome(metadata, quotation_code)
        IN  /\ request' = [metadata |-> metadata, op |-> "create_project_metadata"]
            /\ response' = Respond(outcome)
            /\ proposals_storage' =
                   DictPut(proposals_storage, quotation_code,
                           [created_at |-> NowIso, metadata |-> metadata])
            /\ UNCHANGED <<DEFAULT_OVERHEAD_COSTS, provider_call>>

\* POST /api/metadata
create_project_metadata ==
    \E metadata \in ProjectMetadataInputs, quotation_code \in QuotationCodes :
        LET outcome == create_project_metadata_outcome(metadata, quotation_code)
        IN  /\ request' = [metadata |-> metadata, op |-> "create_project_metadata"]
            /\ response' = Respond(outcome)
            /\ proposals_storage' =
                   IF outcome.raised THEN proposals_storage
                   ELSE DictPut(proposals_storage, quotation_code,
                                [created_at |-> NowIso,
                                 metadata |-> outcome.value.metadata])
            /\ UNCHANGED <<DEFAULT_OVERHEAD_COSTS, provider_call>>

----------------------------------------------------------------------------
(* get_proposal, list_all_proposals, delete_proposal *)

\* The codes a client asks for: the two that creations return and one that
\* no creation has returned.
LookupCodes == QuotationCodes \cup {"MUT-20250131-FFFFFFFF"}

NotFound == HTTPException(404, [arg |-> None, msg |-> "Proposal not found"])

get_proposal_outcome_any_entry(storage, quotation_code) ==
    IF quotation_code \notin DOMAIN storage THEN NotFound
    ELSE Return(storage[CHOOSE k \in DOMAIN storage : TRUE])

\* The body of get_proposal on the store it reads.
get_proposal_outcome(storage, quotation_code) ==
    IF quotation_code \notin DOMAIN storage THEN NotFound
    ELSE Return(storage[quotation_code])

\* GET /api/proposal/{quotation_code}
get_proposal ==
    \E quotation_code \in LookupCodes :
        /\ request' = [op |-> "get_proposal", quotation_code |-> quotation_code]
        /\ response' = Respond(get_proposal_outcome(proposals_storage, quotation_code))
        /\ UNCHANGED <<DEFAULT_OVERHEAD_COSTS, proposals_storage, provider_call>>

\* The body of list_all_proposals on the store it reads.  The list of keys is
\* kept as the set of its elements: the order of the list is not modelled.
list_all_proposals_outcome(storage) ==
    Return([proposals |-> DOMAIN storage,
            total_count |-> Cardinality(DOMAIN storage)])

\* GET /api/proposals
list_all_proposals ==
    /\ request' = [op |-> "list_all_proposals"]
    /\ response' = Respond(list_all_proposals_outcome(proposals_storage))
    /\ UNCHANGED <<DEFAULT_OVERHEAD_COSTS, proposals_storage, provider_call>>

DictDel_clears(d, k) == <<>>

\* del d[k], k a key of d.
DictDel(d, k) ==
    IF DOMAIN d = {k} THEN <<>>
    ELSE [x \in DOMAIN d \ {k} |-> d[x]]

\* DELETE /api/proposal/{quotation_code}
delete_proposal ==
    \E quotation_code \in LookupCodes :
        /\ request' = [op |-> "delete_proposal", quotation_code |-> quotation_code]
        /\ IF quotation_code \notin DOMAIN proposals_storage
           THEN /\ response' = Respond(NotFound)
                /\ proposals_storage' = proposals_storage
           ELSE /\ proposals_storage' = DictDel(proposals_storage, quotation_code)
                /\ response' =
                       Respond(Return([message |-> [arg |-> quotation_code,
                                                    msg |-> "Proposal deleted"],
                                       success |-> TRUE]))
        /\ UNCHANGED <<DEFAULT_OVERHEAD_COSTS, provider_call>>

----------------------------------------------------------------------------
(* get_proposal_summary *)

\* d.get(k, default)
DictGet(d, k, default) == IF k \in DOMAIN d THEN d[k] ELSE default

\* f"{x:,.2f}" of an amount in half riyals: the riyals and the two decimals.
FormatMoney(x) == [cents |-> 50 * (x % 2), riyals |-> x \div 2]

\* f"{p}" of a percentage: its whole part and what is left, in 0.005 %.
FormatPercentage(p) == [fraction |-> p % Pct(1), whole |-> p \div Pct(1)]

\* The text a complete entry is rendered to, by the values put in its lines.
format_summary(metadata, proposal) ==
    [client |-> <<DictGet(metadata, "client_name_en", "N/A"),
                  DictGet(metadata, "client_name_ar", "N/A")>>,
     date |-> proposal.date,
     duration |-> DictGet(metadata, "duration_months", "N/A"),
     items |->
         [i \in 1..Len(proposal.items) |->
             [description |-> proposal.items[i].description,
              index |-> i,
              quantity |-> DictGet(proposal.items[i], "quantity", 1),
              total |-> FormatMoney(DictGet(proposal.items[i], "total_price", 0)),
              unit_price |-> FormatMoney(DictGet(proposal.items[i], "unit_price", 0))]],
     offer_number |-> proposal.offer_number,
     payment_terms |->
         [i \in 1..Len(proposal.payment_terms) |->
             [amount |-> FormatMoney(proposal.payment_terms[i].amount),
              description |-> proposal.payment_terms[i].description,
              index |-> i,
              percentage |-> FormatPercentage(proposal.payment_terms[i].percentage)]],
     project |-> <<DictGet(metadata, "project_name_en", "N/A"),
                   DictGet(metadata, "project_name_ar", "N/A")>>,
     rfp_code |-> DictGet(metadata, "rfp_code", "N/A"),
     total_project_value |-> FormatMoney(proposal.total_amount)]

IncompleteMarker == "Incomplete proposal data"

get_proposal_summary_outcome_misspelt_key(storage, quotation_code) ==
    IF quotation_code \notin DOMAIN storage THEN NotFound
    ELSE LET data == storage[quotation_code]
         IN  IF "metadata" \in DOMAIN data /\ "proposals" \in DOMAIN data
             THEN Return([summary |-> format_summary(data.metadata, data.proposal)])
             ELSE Return([summary |-> [marker |-> IncompleteMarker]])

\* The body of get_proposal_summary on the store it reads.  The summary is
\* either the marker or a rendered text.
get_proposal_summary_outcome(storage, quotation_code) ==
    IF quotation_code \notin DOMAIN storage THEN NotFound
    ELSE LET data == storage[quotation_code]
         IN  IF "metadata" \in DOMAIN data /\ "proposal" \in DOMAIN data
             THEN Return([summary |-> format_summary(data.metadata, data.proposal)])
             ELSE Return([summary |-> [marker |-> IncompleteMarker]])

\* GET /api/proposal/{quotation_code}/summary
get_proposal_summary ==
    \E quotation_code \in LookupCodes :
        /\ request' = [op |-> "get_proposal_summary",
                       quotation_code |-> quotation_code]
        /\ response' = Respond(get_proposal_summary_outcome(proposals_storage,
                                                             quotation_code))
        /\ UNCHANGED <<DEFAULT_OVERHEAD_COSTS, proposals_storage, provider_call>>

----------------------------------------------------------------------------
(* generate_price_justification *)

\* Texts are sequences of pieces; a piece of white space is one of these.
Whitespace == {" ", "\n"}

RECURSIVE lstrip(_)
lstrip(text) ==
    IF text # <<>> /\ Head(text) \in Whitespace THEN lstrip(Tail(text)) ELSE text

RECURSIVE rstrip(_)
rstrip(text) ==
    IF text # <<>> /\ text[Len(text)] \in Whitespace
    THEN rstrip(SubSeq(text, 1, Len(text) - 1)) ELSE text

strip_leading_only(text) == lstrip(text)

\* str.strip()
strip(text) == rstrip(lstrip(text))

\* The four fixed strings the function returns.
ServiceNotFoundText == <<"Service not found in catalog">>
ConfigurationText == <<"Please configure GEMINI_API_KEY in your environment variables.">>
NoTextFallback == <<"AI analysis indicates this pricing is competitive.">>
ErrorFallback == <<"Our pricing analysis shows this service is competitively priced.">>

\* PriceJustificationRequest bodies and the GEMINI_API_KEY of the environment
\* (unset, empty, set).
JustificationServiceIds == {"1.2", "6.6", "9.9"}
ProposedPrices == {SAR(25000), SAR(35000), SAR(650000)}
ApiKeys == {None, Some(""), Some("key")}

\* What response.text gives: a text, or the ValueError the library raises
\* when the response holds no part to read.
ResponseTexts ==
    {Return(text) : text \in {<<>>, <<" ">>, <<"Fair", " ", "price.">>,
                              <<" ", "Fair", " ", "price.">>,
                              <<"Fair", " ", "price.", "\n">>,
                              <<"\n", " ", "Fair", " ", "price.", " ", "\n">>}}
    \cup {Raise("ValueError")}

\* What model.generate_content(prompt) does when it comes back: it raises, or
\* returns no response, or returns a response.
ProviderOutcomes ==
    {Raise("ProviderError"), Return(None)}
    \cup {Return(Some([text |-> text])) : text \in ResponseTexts}

NoCall == [state |-> "none"]

\* The handler is inside model.generate_content, a synchronous call: the
\* event loop runs nothing else until it comes back.
InFlight == provider_call.state \in {"waiting", "returned"} /\ response.status = 0

\* generate_price_justification_endpoint around the function's result.
generate_price_justification_endpoint(req, result) ==
    IF result.raised
    THEN HTTPException(500, [arg |-> result,
                             msg |-> "Error generating price justification"])
    ELSE Return([justification |-> result.value,
                 proposed_price |-> req.proposed_price,
                 service_id |-> req.service_id])

justification_of_unguarded(call_outcome) ==
    IF call_outcome.raised THEN call_outcome
    ELSE IF IsNone(call_outcome.value) THEN Return(NoTextFallback)
    ELSE LET text == Val(call_outcome.value).text
         IN  IF text.raised THEN text
             ELSE IF text.value # <<>> THEN Return(strip(text.value))
             ELSE Return(NoTextFallback)

\* The function from the return of the provider call on, under its
\* `except Exception`.
justification_of(call_outcome) ==
    IF call_outcome.raised THEN Return(ErrorFallback)
    ELSE IF IsNone(call_outcome.value) THEN Return(NoTextFallback)
    ELSE LET text == Val(call_outcome.value).text
         IN  IF text.raised THEN Return(ErrorFallback)
             ELSE IF text.value # <<>> THEN Return(strip(text.value))
             ELSE Return(NoTextFallback)

\* POST /api/price_justification, up to the provider call: the catalog
\* lookup and the key return at once, otherwise the prompt goes out.
generate_price_justification_begin ==
    /\ ~InFlight
    /\ \E service_id \in JustificationServiceIds, proposed_price \in ProposedPrices,
          gemini_api_key \in ApiKeys :
           LET req == [gemini_api_key |-> gemini_api_key,
                       op |-> "generate_price_justification",
                       proposed_price |-> proposed_price,
                       service_id |-> service_id]
               service == CatalogGet(service_id)
           IN  /\ request' = req
               /\ IF IsNone(service)
                  THEN /\ response' = Respond(generate_price_justification_endpoint(
                                                  req, Return(ServiceNotFoundText)))
                       /\ provider_call' = NoCall
                  ELSE IF ~Truthy(gemini_api_key)
                  THEN /\ response' = Respond(generate_price_justification_endpoint(
                                                  req, Return(ConfigurationText)))
                       /\ provider_call' = NoCall
                  ELSE /\ response' = [status |-> 0]
                       /\ provider_call' =
                              [prompt |-> [duration |-> Val(service).duration,
                                           name |-> Val(service).name,
                                           price |-> Val(service).price,
                                           proposed_price |-> proposed_price],
                               state |-> "waiting"]
    /\ UNCHANGED <<DEFAULT_OVERHEAD_COSTS, proposals_storage>>

\* The provider call comes back.  Nothing in the code makes it come back: the
\* call is made without a timeout.
provider_returns ==
    /\ provider_call.state = "waiting"
    /\ \E outcome \in ProviderOutcomes :
           provider_call' = [outcome |-> outcome,
                             prompt |-> provider_call.prompt,
                             state |-> "returned"]
    /\ UNCHANGED <<DEFAULT_OVERHEAD_COSTS, proposals_storage, request, response>>

\* The rest of the handler, once the call is back.
generate_price_justification_finish ==
    /\ provider_call.state = "returned"
    /\ response.status = 0
    /\ response' = Respond(generate_price_justification_endpoint(
                               request, justification_of(provider_call.outcome)))
    /\ UNCHANGED <<DEFAULT_OVERHEAD_COSTS, proposals_storage, request, provider_call>>

----------------------------------------------------------------------------
(* Specifications *)

Init ==
    /\ DEFAULT_OVERHEAD_COSTS = InitialOverheadCosts
    /\ proposals_storage = <<>>
    /\ request = [op |-> "none"]
    /\ response = [status |-> 0]
    /\ provider_call = NoCall

\* The cash-flow engine and the table it reads.
NextCashFlow ==
    \/ calculate_deliverable_cashflow
    \/ update_overhead_costs

SpecCashFlow == Init /\ [][NextCashFlow]_vars

\* The proposal assembler and the store it writes.
NextProposal ==
    \/ create_financial_proposal

SpecProposal == Init /\ [][NextProposal]_vars

\* The two creations and the operations on the store they write.
NextStore ==
    \/ create_financial_proposal
    \/ create_project_metadata
    \/ get_proposal
    \/ list_all_proposals
    \/ get_proposal_summary
    \/ delete_proposal

SpecStore == Init /\ [][NextStore]_vars

\* The price justification and its provider.  The handler's own steps are
\* taken when they can be; the provider owes no answer.
NextJustification ==
    \/ generate_price_justification_begin
    \/ provider_returns
    \/ generate_price_justification_finish

SpecJustification ==
    /\ Init
    /\ [][NextJustification]_vars
    /\ WF_vars(generate_price_justification_begin)
    /\ WF_vars(generate_price_justification_finish)

----------------------------------------------------------------------------
(* get_proposal_summary as a function of the store it is handed *)

\* The proposal create_financial_proposal returns for these items, the terms
\* 40 % and 60 %, and this code.
AssembledProposal(proposal_items, quotation_code) ==
    (CHOOSE outcome \in create_financial_proposal_outcomes(
                            proposal_items,
                            <<Term("Kickoff", Pct(40)), Term("Completion", Pct(60))>>,
                            quotation_code) : ~outcome.raised).value.proposal

\* The metadata create_project_metadata returns for this code.
AssembledMetadata(quotation_code) ==
    processed_metadata(ProjectMetadata(DateString(2025, "-", 1, 31),
                                       DateString(2025, "-", 3, 1)),
                       quotation_code)

\* The entries a store can hold under a code whatever fills it: with neither
\* part, with the metadata alone, with a proposal alone, with both.
SummaryEntries(quotation_code) ==
    {[created_at |-> NowIso],
     [created_at |-> NowIso, metadata |-> AssembledMetadata(quotation_code)]}
    \cup {[created_at |-> NowIso, proposal |-> AssembledProposal(items, quotation_code)]
             : items \in {<<Item2>>, <<Item1, Item2>>}}
    \cup {[created_at |-> NowIso, metadata |-> AssembledMetadata(quotation_code),
           proposal |-> AssembledProposal(items, quotation_code)]
             : items \in {<<Item2>>, <<Item1, Item2>>}}

RECURSIVE StoresOver(_)
\* The stores holding one of these entries under each of the codes given.
StoresOver(codes) ==
    IF codes = {} THEN {<<>>}
    ELSE LET code == CHOOSE c \in codes : TRUE
         IN  {DictPut(rest, code, entry) :
                  rest \in StoresOver(codes \ {code}),
                  entry \in SummaryEntries(code)}

SummaryStores == UNION {StoresOver(codes) : codes \in SUBSET QuotationCodes}

InitSummary ==
    /\ DEFAULT_OVERHEAD_COSTS = InitialOverheadCosts
    /\ proposals_storage \in SummaryStores
    /\ request = [op |-> "none"]
    /\ response = [status |-> 0]
    /\ provider_call = NoCall

NextSummary ==
    \/ get_proposal_summary

SpecSummary == InitSummary /\ [][NextSummary]_vars

----------------------------------------------------------------------------
(* What the claims speak about *)

CashFlowCall == request.op = "calculate_deliverable_cashflow"
ProposalCall == request.op = "create_financial_proposal"
Succeeded == response.status = 200

\* The exception the handler body raised, as the response embeds it.
RaisedInside == response.detail.arg

MissingAmountMsg == "Amount is required when service ID is not provided"
UnknownServiceMsg == "Service ID not found in catalog"
MismatchMsg == "Payment terms must sum to 100%"

\* A deliverable whose service_id is a string the catalog does not hold.
CarriesUnresolvedId(d) ==
    ~IsNone(d.service_id) /\ Val(d.service_id) \notin DOMAIN SERVICES_CATALOG

\* The same, the empty string apart.
CarriesUnresolvedNonEmptyId(d) ==
    CarriesUnresolvedId(d) /\ Val(d.service_id) # ""

\* A deliverable with no amount and no service id (None, or the empty string).
HasNeitherIdNorAmount(d) ==
    IsNone(d.amount) /\ (IsNone(d.service_id) \/ Val(d.service_id) = "")

ResolvesInCatalog(d) ==
    ~IsNone(d.service_id) /\ Val(d.service_id) \in DOMAIN SERVICES_CATALOG

MonthlyRates ==
    DEFAULT_OVERHEAD_COSTS.salaries + DEFAULT_OVERHEAD_COSTS.utilities
    + DEFAULT_OVERHEAD_COSTS.transportation + DEFAULT_OVERHEAD_COSTS.visas
    + DEFAULT_OVERHEAD_COSTS.office_rent + DEFAULT_OVERHEAD_COSTS.insurance

RequestedPercentage ==
    SumSeq([i \in 1..Len(request.payment_terms) |-> request.payment_terms[i].percentage])

----------------------------------------------------------------------------
(* C3 *)

\* C3 as stated: a cash-flow call with a deliverable, at any position, whose
\* service identifier does not resolve in the catalog fails and returns no
\* results and no summary.
C3_AnyUnresolvedIdFailsTheCall ==
    CashFlowCall =>
        ((\E i \in 1..Len(request.deliverables) :
              CarriesUnresolvedId(request.deliverables[i]))
         => (~Succeeded /\ "body" \notin DOMAIN response))

\* C3 amended: a cash-flow call with a deliverable, at any position, whose
\* service identifier is a non-empty string that does not resolve in the
\* catalog fails and returns no results and no summary, whatever precedes it.
C3_UnresolvedNonEmptyIdFailsTheCall ==
    CashFlowCall =>
        ((\E i \in 1..Len(request.deliverables) :
              CarriesUnresolvedNonEmptyId(request.deliverables[i]))
         => (~Succeeded /\ "body" \notin DOMAIN response))

\* A call whose first deliverable is fine and whose second carries the
\* unknown id "9.9" has failed.
C3_Witness ==
    /\ CashFlowCall
    /\ Len(request.deliverables) = 2
    /\ request.deliverables[1] = Deliverable(Some("1.2"), None)
    /\ request.deliverables[2] = Deliverable(Some("9.9"), Some(SAR(500000)))
    /\ ~Succeeded
    /\ "body" \notin DOMAIN response

----------------------------------------------------------------------------
(* C4 *)

\* C4 as stated: a cash-flow call with a deliverable that has neither service
\* identifier nor amount fails with the missing-amount error.
C4_MissingAmountIsTheError ==
    CashFlowCall =>
        ((\E i \in 1..Len(request.deliverables) :
              HasNeitherIdNorAmount(request.deliverables[i]))
         => (~Succeeded /\ RaisedInside.detail.msg = MissingAmountMsg))

\* C4 amended: a cash-flow call with a deliverable that has neither service
\* identifier nor amount fails; the error is the missing-amount error when no
\* deliverable before it carries an unresolved identifier; no successful call
\* holds such a deliverable, and no returned row has a cash-in of 0.
C4_MissingAmountFailsTheCall ==
    CashFlowCall =>
        /\ \A i \in 1..Len(request.deliverables) :
               HasNeitherIdNorAmount(request.deliverables[i]) =>
                   /\ ~Succeeded
                   /\ (\A j \in 1..(i - 1) :
                           ~CarriesUnresolvedNonEmptyId(request.deliverables[j]))
                      => RaisedInside.detail.msg = MissingAmountMsg
        /\ Succeeded =>
               \A i \in 1..Len(response.body.deliverables) :
                   response.body.deliverables[i].cash_in # 0

\* A call whose second deliverable has neither id nor amount has failed with
\* the missing-amount error.
C4_Witness ==
    /\ CashFlowCall
    /\ Len(request.deliverables) = 2
    /\ request.deliverables[1] = Deliverable(None, Some(SAR(500000)))
    /\ request.deliverables[2] = Deliverable(None, None)
    /\ ~Succeeded
    /\ RaisedInside.detail.msg = MissingAmountMsg

----------------------------------------------------------------------------
(* C5 *)

\* C5: in every successful cash-flow call, the row of a deliverable whose
\* service id resolves has cash_in = the explicit amount when one is given and
\* the catalog price when none is; the row of a deliverable without a service
\* id has cash_in = the given amount.
C5_ExplicitAmountWins ==
    (CashFlowCall /\ Succeeded) =>
        /\ Len(response.body.deliverables) = Len(request.deliverables)
        /\ \A i \in 1..Len(request.deliverables) :
               LET d == request.deliverables[i]
                   row == response.body.deliverables[i]
               IN  /\ (ResolvesInCatalog(d) /\ ~IsNone(d.amount))
                          => row.cash_in = Val(d.amount)
                   /\ (ResolvesInCatalog(d) /\ IsNone(d.amount))
                          => row.cash_in = SERVICES_CATALOG[Val(d.service_id)].price
                   /\ ~ResolvesInCatalog(d) => row.cash_in = Val(d.amount)

\* A row for service "1.2" with an explicit amount carries that amount, which
\* is not the catalog price.
C5_Witness ==
    /\ CashFlowCall /\ Succeeded
    /\ \E i \in 1..Len(request.deliverables) :
           /\ request.deliverables[i] = Deliverable(Some("1.2"), Some(SAR(500000)))
           /\ response.body.deliverables[i].cash_in = SAR(500000)
           /\ SERVICES_CATALOG["1.2"].price # SAR(500000)

----------------------------------------------------------------------------
(* C6 *)

\* C6: in every successful cash-flow call, after any earlier calls, the k-th
\* row's cumulative_net_flow is the sum of net_flow over rows 1..k.
C6_CumulativeIsPrefixSum ==
    (CashFlowCall /\ Succeeded) =>
        \A k \in 1..Len(response.body.deliverables) :
            response.body.deliverables[k].cumulative_net_flow =
                SumSeq([i \in 1..k |-> response.body.deliverables[i].net_flow])

\* A two-row result whose first net flow is not 0 and whose last cumulative
\* value is the sum of both.
C6_Witness ==
    /\ CashFlowCall /\ Succeeded
    /\ Len(response.body.deliverables) = 2
    /\ response.body.deliverables[1].net_flow # 0
    /\ response.body.deliverables[2].net_flow # 0
    /\ response.body.deliverables[2].cumulative_net_flow =
           response.body.deliverables[1].net_flow
           + response.body.deliverables[2].net_flow

----------------------------------------------------------------------------
(* C7 *)

\* num / den * 100 is a whole number of hundredths and margin is that number.
IsExactPercent(num, den, margin) ==
    LET r1 == (100 * (num % den)) % den
        r2 == (100 * r1) % den
    IN  r2 = 0 /\ RoundedPercent(num, den) = {margin}

\* C7 as stated: a cash-flow call with no revenue succeeds with profit_margin
\* 0, and with revenue its profit_margin is total_profit / total_revenue * 100.
C7_MarginIsTheQuotient ==
    CashFlowCall =>
        /\ request.deliverables = <<>> => Succeeded
        /\ Succeeded =>
               LET summary == response.body.summary
               IN  IF summary.total_revenue = 0
                   THEN summary.profit_margin = 0
                   ELSE IsExactPercent(summary.total_profit, summary.total_revenue,
                                       summary.profit_margin)

\* C7 amended: a cash-flow call fails only on a deliverable without amount or
\* with an unresolved id, never on the division; with no revenue (the empty
\* list) it returns profit_margin 0, and with revenue it returns
\* total_profit / total_revenue * 100 rounded to 2 decimals.
C7_MarginIsTheRoundedQuotient ==
    CashFlowCall =>
        /\ ~Succeeded =>
               \E i \in 1..Len(request.deliverables) :
                   \/ HasNeitherIdNorAmount(request.deliverables[i])
                   \/ CarriesUnresolvedNonEmptyId(request.deliverables[i])
        /\ Succeeded =>
               LET summary == response.body.summary
               IN  /\ summary.total_revenue =
                          SumSeq([i \in 1..Len(response.body.deliverables) |->
                                     response.body.deliverables[i].cash_in])
                   /\ summary.total_profit =
                          summary.total_revenue
                          - SumSeq([i \in 1..Len(response.body.deliverables) |->
                                       response.body.deliverables[i].cash_out])
                   /\ IF summary.total_revenue = 0
                      THEN summary.profit_margin = 0
                      ELSE summary.profit_margin \in
                               RoundedPercent(summary.total_profit, summary.total_revenue)

\* The call with no deliverables has succeeded with revenue 0 and margin 0.
C7_Witness ==
    /\ CashFlowCall /\ Succeeded
    /\ request.deliverables = <<>>
    /\ response.body.summary.total_revenue = 0
    /\ response.body.summary.profit_margin = 0

----------------------------------------------------------------------------
(* C8 *)

\* C8: every row of a successful cash-flow call has
\* overhead = base_costs * 0.15 + (sum of the monthly rates) * duration, with
\* base_costs = salaries + tools + others and duration the catalog record's
\* when a service id was used and 1 otherwise; cash_out = base_costs + overhead;
\* net_flow = cash_in - cash_out; is_profitable exactly when net_flow > 0.
C8_RowArithmetic ==
    (CashFlowCall /\ Succeeded) =>
        \A i \in 1..Len(response.body.deliverables) :
            LET row == response.body.deliverables[i]
                d == request.deliverables[i]
                base_costs == row.salaries + row.tools + row.others
                duration == IF ResolvesInCatalog(d)
                            THEN SERVICES_CATALOG[Val(d.service_id)].duration ELSE 1
            IN  /\ row.salaries = d.salaries /\ row.tools = d.tools
                /\ row.others = d.others
                /\ 100 * row.overhead = 15 * base_costs + 100 * MonthlyRates * duration
                /\ row.cash_out = base_costs + row.overhead
                /\ row.net_flow = row.cash_in - row.cash_out
                /\ row.is_profitable <=> row.net_flow > 0

\* The worked example: service "1.2" at its catalog price under the initial
\* table gives overhead 216187.5, cash-out 217437.5, net flow -187437.5.
C8_Witness ==
    /\ CashFlowCall /\ Succeeded
    /\ DEFAULT_OVERHEAD_COSTS = InitialOverheadCosts
    /\ request.deliverables = <<Deliverable(Some("1.2"), None)>>
    /\ response.body.deliverables[1].overhead = 432375
    /\ response.body.deliverables[1].cash_out = 434875
    /\ response.body.deliverables[1].net_flow = 0 - 374875
    /\ response.body.deliverables[1].is_profitable = FALSE

----------------------------------------------------------------------------
(* C9 *)

\* C9: after any sequence of overhead updates and cash-flow calls, every
\* monthly rate in the table is non-negative and so is the overhead of every
\* returned row.
C9_OverheadNonNegative ==
    /\ \A k \in DOMAIN DEFAULT_OVERHEAD_COSTS : DEFAULT_OVERHEAD_COSTS[k] >= 0
    /\ (CashFlowCall /\ Succeeded) =>
           \A i \in 1..Len(response.body.deliverables) :
               response.body.deliverables[i].overhead >= 0

----------------------------------------------------------------------------
(* C1 *)

\* The quotation code -> proposal pairs a step added to or changed in the store.
WrittenProposal(code) ==
    /\ code \in DOMAIN proposals_storage'
    /\ proposals_storage'[code].proposal = response'.body.proposal
    /\ \A other \in DOMAIN proposals_storage' \ {code} :
           /\ other \in DOMAIN proposals_storage
           /\ proposals_storage'[other] = proposals_storage[other]

\* C1: every create_financial_proposal call whose percentages sum to exactly
\* 100 succeeds and stores the proposal it returns; every call whose sum lies
\* outside [99.99, 100.01] fails with the payment-term mismatch carrying that
\* sum, returns no proposal and leaves the store as it was.
C1_SumDecidesAssembly ==
    [][ProposalCall' =>
           /\ RequestedPercentage' = Pct(100) =>
                  /\ Succeeded'
                  /\ response'.body.proposal.offer_number = response'.body.quotation_code
                  /\ WrittenProposal(response'.body.quotation_code)
           /\ Abs(RequestedPercentage' - Pct(100)) > 2 =>
                  /\ ~Succeeded'
                  /\ "body" \notin DOMAIN response'
                  /\ RaisedInside'.detail.msg = MismatchMsg
                  /\ RaisedInside'.detail.arg = RequestedPercentage'
                  /\ proposals_storage' = proposals_storage
       ]_vars

\* The call with terms 30 + 30 + 39 has failed with the mismatch and its sum
\* of 99 while an earlier proposal is still the only one stored.
C1_Witness ==
    /\ ProposalCall
    /\ RequestedPercentage = Pct(99)
    /\ Len(request.payment_terms) = 3
    /\ ~Succeeded
    /\ RaisedInside.detail.msg = MismatchMsg
    /\ RaisedInside.detail.arg = Pct(99)
    /\ Cardinality(DOMAIN proposals_storage) = 1

----------------------------------------------------------------------------
(* C2 *)

\* C2: a cash-flow call that fails on an unknown service id or a missing
\* amount, and a proposal call that fails on a payment-term mismatch, reach
\* the caller as a 4xx rejection whose detail is the descriptive message, never
\* as the 500 used for unexpected errors.
C2_ValidationFailuresAreRejections ==
    ((CashFlowCall \/ ProposalCall) /\ ~Succeeded) =>
        /\ response.status \in 400..499
        /\ response.status # 500
        /\ response.detail.msg \in {UnknownServiceMsg, MissingAmountMsg, MismatchMsg}

----------------------------------------------------------------------------
(* C10 *)

RequestedTotal ==
    SumSeq([i \in 1..Len(request.proposal_items) |-> request.proposal_items[i].total_price])

ReturnedAmounts ==
    [i \in 1..Len(response.body.proposal.payment_terms) |->
        response.body.proposal.payment_terms[i].amount]

\* total_amount is the sum of the items' total_price and the i-th output term
\* is the i-th input term with amount = total_amount * percentage / 100.
TermsCarryTheirShare ==
    LET proposal == response.body.proposal
    IN  /\ proposal.total_amount = RequestedTotal
        /\ Len(proposal.payment_terms) = Len(request.payment_terms)
        /\ \A i \in 1..Len(request.payment_terms) :
               /\ proposal.payment_terms[i].description =
                      request.payment_terms[i].description
               /\ proposal.payment_terms[i].percentage =
                      request.payment_terms[i].percentage
               /\ proposal.payment_terms[i].amount =
                      (RequestedTotal \div Pct(100)) * request.payment_terms[i].percentage

\* C10 as stated: in every accepted proposal the terms carry their share of
\* total_amount, in input order, and the amounts sum to total_amount.
C10_AmountsSumToTotal ==
    (ProposalCall /\ Succeeded) =>
        /\ TermsCarryTheirShare
        /\ SumSeq(ReturnedAmounts) = response.body.proposal.total_amount

\* C10 amended: in every accepted proposal the terms carry their share of
\* total_amount, in input order, and the amounts sum to
\* total_amount * (sum of the percentages) / 100, which is total_amount when
\* the percentages sum to exactly 100.
C10_AmountsSumToShareOfTotal ==
    (ProposalCall /\ Succeeded) =>
        /\ TermsCarryTheirShare
        /\ SumSeq(ReturnedAmounts) = (RequestedTotal \div Pct(100)) * RequestedPercentage
        /\ RequestedPercentage = Pct(100) =>
               SumSeq(ReturnedAmounts) = response.body.proposal.total_amount

\* The worked example: items totalling 500000 with terms 40 and 60 give the
\* amounts 200000 and 300000.
C10_Witness ==
    /\ ProposalCall /\ Succeeded
    /\ request.proposal_items = <<Item1, Item2>>
    /\ request.payment_terms =
           <<Term("Kickoff", Pct(40)), Term("Completion", Pct(60))>>
    /\ response.body.proposal.total_amount = SAR(500000)
    /\ ReturnedAmounts = <<SAR(200000), SAR(300000)>>

----------------------------------------------------------------------------
(* The store, as the claims speak about it *)

MetadataCall == request.op = "create_project_metadata"
GetCall == request.op = "get_proposal"
ListCall == request.op = "list_all_proposals"
SummaryCall == request.op = "get_proposal_summary"
DeleteCall == request.op = "delete_proposal"
NotFoundMsg == "Proposal not found"

\* The last operation was a creation that returned `code`.
Creates(code) ==
    /\ ProposalCall \/ MetadataCall
    /\ Succeeded
    /\ response.body.quotation_code = code

\* The last operation was a delete of `code`.
Deletes(code) == DeleteCall /\ request.quotation_code = code

\* The last operation asked for a code by its key.
LookupCall == GetCall \/ SummaryCall \/ DeleteCall

\* A step leaves every stored record but that of `code` as it was.
OthersKept(code) ==
    \A other \in DOMAIN proposals_storage \ {code} :
        /\ other \in DOMAIN proposals_storage'
        /\ proposals_storage'[other] = proposals_storage[other]

----------------------------------------------------------------------------
(* C11 *)

\* C11: create_financial_proposal stores under the code it returns the
\* proposal it returns; get_proposal on a stored code returns the stored
\* entry, whose proposal is that proposal field for field; and every step that
\* is neither a delete of a code nor a creation returning it leaves the record
\* stored under that code as it was.
C11_StoredProposalRoundTrip ==
    [][/\ (ProposalCall' /\ Succeeded') =>
              /\ response'.body.quotation_code \in DOMAIN proposals_storage'
              /\ proposals_storage'[response'.body.quotation_code].proposal
                     = response'.body.proposal
       /\ (GetCall' /\ request'.quotation_code \in DOMAIN proposals_storage) =>
              /\ Succeeded'
              /\ response'.body = proposals_storage[request'.quotation_code]
              /\ proposals_storage' = proposals_storage
       /\ \A code \in DOMAIN proposals_storage :
              (~Deletes(code)' /\ ~Creates(code)') =>
                  /\ code \in DOMAIN proposals_storage'
                  /\ proposals_storage'[code] = proposals_storage[code]
      ]_vars

\* get_proposal has returned, for the code of a stored proposal, the entry
\* holding that proposal, with its items and its terms with their amounts.
C11_Witness ==
    /\ GetCall /\ Succeeded
    /\ request.quotation_code = "MUT-20250131-0000000A"
    /\ "proposal" \in DOMAIN response.body
    /\ response.body.proposal.offer_number = "MUT-20250131-0000000A"
    /\ response.body.proposal.items = <<Item1, Item2>>
    /\ response.body.proposal.total_amount = SAR(500000)
    /\ Len(response.body.proposal.payment_terms) = 2
    /\ response.body.proposal.payment_terms[1].amount = SAR(200000)
    /\ response.body = proposals_storage["MUT-20250131-0000000A"]
    /\ Cardinality(DOMAIN proposals_storage) = 2

----------------------------------------------------------------------------
(* C12 *)

\* An amount in half riyals and the riyals and decimals it is printed with.
PrintedAs(printed, amount) == 100 * printed.riyals + printed.cents = 50 * amount

\* The rendered text names every item, the total and every term of `proposal`.
Renders(summary, proposal) ==
    /\ "marker" \notin DOMAIN summary
    /\ summary.offer_number = proposal.offer_number
    /\ Len(summary.items) = Len(proposal.items)
    /\ \A i \in 1..Len(proposal.items) :
           /\ summary.items[i].index = i
           /\ summary.items[i].description = proposal.items[i].description
           /\ summary.items[i].quantity = proposal.items[i].quantity
           /\ PrintedAs(summary.items[i].unit_price, proposal.items[i].unit_price)
           /\ PrintedAs(summary.items[i].total, proposal.items[i].total_price)
    /\ PrintedAs(summary.total_project_value, proposal.total_amount)
    /\ Len(summary.payment_terms) = Len(proposal.payment_terms)
    /\ \A i \in 1..Len(proposal.payment_terms) :
           /\ summary.payment_terms[i].index = i
           /\ summary.payment_terms[i].description
                  = proposal.payment_terms[i].description
           /\ Pct(1) * summary.payment_terms[i].percentage.whole
                  + summary.payment_terms[i].percentage.fraction
                  = proposal.payment_terms[i].percentage
           /\ PrintedAs(summary.payment_terms[i].amount,
                        proposal.payment_terms[i].amount)

\* C12: get_proposal_summary reports not-found on a code that is not stored;
\* on a stored code it returns the incomplete-data marker when the entry lacks
\* the metadata or the proposal, and the rendered summary (items, total
\* project value, payment terms) when the entry holds both.
C12_SummaryOfAnEntry ==
    SummaryCall =>
        IF request.quotation_code \notin DOMAIN proposals_storage
        THEN response.status = 404 /\ response.detail.msg = NotFoundMsg
        ELSE LET data == proposals_storage[request.quotation_code]
             IN  /\ Succeeded
                 /\ IF "metadata" \in DOMAIN data /\ "proposal" \in DOMAIN data
                    THEN /\ Renders(response.body.summary, data.proposal)
                         /\ response.body.summary.rfp_code = data.metadata.rfp_code
                         /\ response.body.summary.duration
                                = data.metadata.duration_months
                    ELSE response.body.summary = [marker |-> IncompleteMarker]

\* The summary of an entry holding both parts has been rendered: two items,
\* a total of 500,000.00 and the term amounts 200,000.00 and 300,000.00.
C12_Witness ==
    /\ SummaryCall /\ Succeeded
    /\ "metadata" \in DOMAIN proposals_storage[request.quotation_code]
    /\ "proposal" \in DOMAIN proposals_storage[request.quotation_code]
    /\ Len(response.body.summary.items) = 2
    /\ response.body.summary.total_project_value = [cents |-> 0, riyals |-> 500000]
    /\ response.body.summary.payment_terms[1].amount = [cents |-> 0, riyals |-> 200000]
    /\ response.body.summary.payment_terms[2].amount = [cents |-> 0, riyals |-> 300000]

----------------------------------------------------------------------------
(* C13 *)

JustificationCall == request.op = "generate_price_justification"
JustificationPending == JustificationCall /\ response.status = 0
JustificationResolved == JustificationCall /\ response.status # 0

\* The provider call came back with a response whose text is not empty.
ProviderGaveText(outcome) ==
    /\ ~outcome.raised
    /\ ~IsNone(outcome.value)
    /\ ~Val(outcome.value).text.raised
    /\ Val(outcome.value).text.value # <<>>

\* `trimmed` is `text` without the white space at its two ends.
IsTrimOf(trimmed, text) ==
    /\ \E a \in 0..Len(text), b \in 0..Len(text) :
           /\ a + b <= Len(text)
           /\ trimmed = SubSeq(text, a + 1, Len(text) - b)
           /\ \A i \in 1..a : text[i] \in Whitespace
           /\ \A i \in (Len(text) - b + 1)..Len(text) : text[i] \in Whitespace
    /\ trimmed # <<>> =>
           (trimmed[1] \notin Whitespace /\ trimmed[Len(trimmed)] \notin Whitespace)

\* C13: every price-justification request that has resolved has succeeded
\* with a string: a fixed string for an unknown service id, for a missing or
\* empty API key, for a provider call that raised and for a response without
\* text; the provider's text, trimmed, when it gave one.
C13_JustificationNeverFails ==
    JustificationResolved =>
        /\ Succeeded
        /\ LET justification == response.body.justification
           IN  IF request.service_id \notin DOMAIN SERVICES_CATALOG
               THEN justification = ServiceNotFoundText
               ELSE IF IsNone(request.gemini_api_key) \/ Val(request.gemini_api_key) = ""
               THEN justification = ConfigurationText
               ELSE /\ provider_call.state = "returned"
                    /\ IF ProviderGaveText(provider_call.outcome)
                       THEN IsTrimOf(justification,
                                     Val(provider_call.outcome.value).text.value)
                       ELSE justification \in {NoTextFallback, ErrorFallback}

\* The provider call has raised and the request has succeeded with the
\* fallback string.
C13_Witness ==
    /\ JustificationResolved /\ Succeeded
    /\ request.service_id = "1.2"
    /\ provider_call.state = "returned"
    /\ provider_call.outcome = Raise("ProviderError")
    /\ response.body.justification = ErrorFallback

----------------------------------------------------------------------------
(* C14 *)

\* C14: every price-justification request that waits for the provider
\* eventually resolves, whether or not the provider answers.
C14_JustificationEventuallyResolves ==
    JustificationPending ~> JustificationResolved

----------------------------------------------------------------------------
(* C15 *)

SameFigures(a, b) ==
    /\ a.body.deliverables = b.body.deliverables
    /\ a.body.summary.total_revenue = b.body.summary.total_revenue
    /\ a.body.summary.total_costs = b.body.summary.total_costs
    /\ a.body.summary.total_profit = b.body.summary.total_profit
    /\ a.body.summary.is_profitable = b.body.summary.is_profitable

----------------------------------------------------------------------------
(* C16 *)

\* C16: a create_financial_proposal step that fails (on a payment-term
\* mismatch) and a create_project_metadata step that fails (on a malformed
\* date or on a start date not before the end date) leave the store with the
\* same keys and the same records.
C16_RejectedCreationLeavesStore ==
    [][((ProposalCall' \/ MetadataCall') /\ ~Succeeded') =>
           /\ DOMAIN proposals_storage' = DOMAIN proposals_storage
           /\ \A code \in DOMAIN proposals_storage :
                  proposals_storage'[code] = proposals_storage[code]
      ]_vars

\* A metadata creation whose start date is not before its end date has been
\* rejected while the store holds the two entries written before it.
C16_Witness ==
    /\ MetadataCall /\ ~Succeeded
    /\ request.metadata.start_date = DateString(2025, "-", 3, 1)
    /\ request.metadata.end_date = DateString(2025, "-", 1, 31)
    /\ RaisedInside.detail.msg = "End date must be after start date"
    /\ Cardinality(DOMAIN proposals_storage) = 2
    /\ "proposal" \in DOMAIN proposals_storage["MUT-20250131-0000000A"]
    /\ "metadata" \in DOMAIN proposals_storage["MUT-20250131-0000000B"]

----------------------------------------------------------------------------
(* C17 *)

\* The entry a successful creation is to have written: its own part and the
\* time of the write.
EntryOf(resp) ==
    IF "proposal" \in DOMAIN resp.body
    THEN [created_at |-> NowIso, proposal |-> resp.body.proposal]
    ELSE [created_at |-> NowIso, metadata |-> resp.body.metadata]

\* C17: every successful creation writes one entry, under the code it
\* returns, holding what it returns, and leaves every other record as it was;
\* the store grows by one key when the code is new and keeps its keys, the
\* prior record replaced, when the code is already stored.
C17_CreationWritesOneEntry ==
    [][((ProposalCall' \/ MetadataCall') /\ Succeeded') =>
           LET code == response'.body.quotation_code
           IN  /\ DOMAIN proposals_storage' = DOMAIN proposals_storage \cup {code}
               /\ proposals_storage'[code] = EntryOf(response')
               /\ OthersKept(code)
               /\ code \notin DOMAIN proposals_storage =>
                      Cardinality(DOMAIN proposals_storage')
                          = Cardinality(DOMAIN proposals_storage) + 1
               /\ code \in DOMAIN proposals_storage =>
                      Cardinality(DOMAIN proposals_storage')
                          = Cardinality(DOMAIN proposals_storage)
      ]_vars

\* A metadata creation has succeeded under code A while the store holds a
\* proposal under code B: the entry of A is the metadata alone.
C17_Witness ==
    /\ MetadataCall /\ Succeeded
    /\ response.body.quotation_code = "MUT-20250131-0000000A"
    /\ response.body.metadata.duration_months = 1
    /\ proposals_storage["MUT-20250131-0000000A"] =
           [created_at |-> NowIso, metadata |-> response.body.metadata]
    /\ DOMAIN proposals_storage = QuotationCodes
    /\ "proposal" \in DOMAIN proposals_storage["MUT-20250131-0000000B"]

----------------------------------------------------------------------------
(* C18 *)

\* C18: get_proposal, get_proposal_summary and delete_proposal on a code that
\* is not stored report not-found and leave the store as it was;
\* delete_proposal on a stored code removes that key and no other; a key
\* enters the store only by a creation returning it (so that a deleted code
\* stays not-found until then); list_all_proposals returns the stored keys and
\* their number.
C18_LookupsAndDelete ==
    [][/\ (LookupCall' /\ request'.quotation_code \notin DOMAIN proposals_storage) =>
              /\ response'.status = 404
              /\ response'.detail.msg = NotFoundMsg
              /\ proposals_storage' = proposals_storage
       /\ (DeleteCall' /\ request'.quotation_code \in DOMAIN proposals_storage) =>
              /\ Succeeded'
              /\ DOMAIN proposals_storage'
                     = DOMAIN proposals_storage \ {request'.quotation_code}
              /\ OthersKept(request'.quotation_code)
       /\ \A code \in DOMAIN proposals_storage' \ DOMAIN proposals_storage :
              Creates(code)'
       /\ ListCall' =>
              /\ Succeeded'
              /\ response'.body.proposals = DOMAIN proposals_storage
              /\ response'.body.total_count = Cardinality(DOMAIN proposals_storage)
              /\ proposals_storage' = proposals_storage
      ]_vars

\* Code A has been deleted from a store that held A and B: B alone is left.
C18_Witness ==
    /\ DeleteCall /\ Succeeded
    /\ request.quotation_code = "MUT-20250131-0000000A"
    /\ DOMAIN proposals_storage = {"MUT-20250131-0000000B"}

----------------------------------------------------------------------------
(* C19 *)

\* C19: after any sequence of creations and deletes, every stored entry holds
\* exactly one of the parts 'metadata' and 'proposal', and every
\* get_proposal_summary on a stored code returns the incomplete-data marker.
C19_NoEntryHoldsBothParts ==
    /\ \A code \in DOMAIN proposals_storage :
           ("metadata" \in DOMAIN proposals_storage[code])
               # ("proposal" \in DOMAIN proposals_storage[code])
    /\ (SummaryCall /\ Succeeded) =>
           response.body.summary = [marker |-> IncompleteMarker]

\* The summary of a stored proposal has been asked for, in a store that also
\* holds a metadata entry, and the marker was returned.
C19_Witness ==
    /\ SummaryCall /\ Succeeded
    /\ request.quotation_code = "MUT-20250131-0000000A"
    /\ "proposal" \in DOMAIN proposals_storage["MUT-20250131-0000000A"]
    /\ "MUT-20250131-0000000B" \in DOMAIN proposals_storage
    /\ "metadata" \in DOMAIN proposals_storage["MUT-20250131-0000000B"]
    /\ response.body.summary = [marker |-> IncompleteMarker]

====
